---- MODULE Spec2Model ----
(***************************************************************************)
(* Payroll app (app.py): the attendance calendar's draft and its           *)
(* reconciliation with the durable attendance table, and the payroll       *)
(* aggregation over the attendance, bonus and deduction tables.            *)
(*                                                                         *)
(* Tables are bags (multisets) of rows without the AUTOINCREMENT id: no    *)
(* statement of the modelled code reads or compares the id.  A date is its *)
(* ISO string read as the number yyyymmdd, which orders like the string.   *)
(* Money is an integer number of paise (1/100 rupee); exact intermediate   *)
(* values are kept in units of 1/60 paisa.                                 *)
(***************************************************************************)
EXTENDS Bags, FiniteSets, Integers, Sequences, TLC

----------------------------------------------------------------------------
(* Bounds of the model *)

\* the bounded calendar: every month is cut to its first NumDays days
NumDays == 2
\* single-entry attendance inserts (ui_attendance) in one behaviour
MaxAdds == 1
\* clicks on "Save to database" in one behaviour
MaxSaves == 2
\* draft edits (click, range, fill) in one behaviour
MaxEdits == 1
\* copies of one row in the table the program starts with
MaxCopies == 2
\* draft edits in one behaviour of the draft specifications
MaxClicks == 5

----------------------------------------------------------------------------
(* Program constants *)

LEAVE_DIVISOR == 30

\* Python None, an unset draft cell
None == "None"

\* SQL NULL in a REAL column, which no amount equals
NULL == -1

STATUSES == {"Present", "Absent", "Half Day", "Weekly Off"}

\* the cycle without the unset state
cycle_fourStates == <<"Present", "Absent", "Half Day", "Weekly Off">>

cycle == <<"Present", "Absent", "Half Day", "Weekly Off", None>>

\* the provenance note of rows written by the calendar
CalendarNote == "calendar"

----------------------------------------------------------------------------
(* Input sets *)

Emps == {"E1", "E2"}
Sessions == {"S1", "S2"}
\* (year, month) pairs selectable in the calendar
CalMonths == {<<2024, 12>>}
\* notes typed into the single-entry form
Notes == {"manual"}
\* statuses chosen in the single-entry form
EntryStatuses == {"Absent"}

\* a session that has not opened the calendar has no draft and no scope
NoDraft == <<>>
NoScope == [emp_id |-> None, year |-> 0, month |-> 0]
NoLock == "NoLock"

----------------------------------------------------------------------------
(* Dates *)

isoformat(y, m, d) == y * 10000 + m * 100 + d

DayOfMonth(dstr) == dstr % 100

monthrange(year, month) == NumDays

month_bounds(year, month) ==
  IF month = 12
    THEN <<isoformat(year, month, 1), isoformat(year + 1, 1, 1)>>
    ELSE <<isoformat(year, month, 1), isoformat(year, month + 1, 1)>>

\* the dates the single-entry form is used with
LedgerDays ==
  {isoformat(2024, 12, d) : d \in 1..NumDays} \cup {isoformat(2025, 1, 1)}

----------------------------------------------------------------------------
(* SQL statements on the attendance table *)

Row(dstr, emp_id, status, note) ==
  [day |-> dstr, emp_id |-> emp_id, status |-> status, note |-> note]

\* the DELETE without its emp_id condition
DeleteStmt_anyEmployee(L, emp_id, dstr) ==
  LET keep == {r \in DOMAIN L : r.day # dstr}
  IN  [r \in keep |-> L[r]]

\* DELETE FROM attendance WHERE emp_id=? AND day=?
DeleteStmt(L, emp_id, dstr) ==
  LET keep == {r \in DOMAIN L : ~(r.emp_id = emp_id /\ r.day = dstr)}
  IN  [r \in keep |-> L[r]]

\* INSERT [OR IGNORE] INTO attendance(day,emp_id,status,note): the table has
\* the CHECK on status and no UNIQUE constraint on (emp_id, day)
InsertStmt(L, row) ==
  IF row.status \in STATUSES THEN L (+) SetToBag({row}) ELSE L

\* SELECT ... FROM attendance WHERE emp_id=? AND day>=? AND day<?
SelectRange(L, emp_id, lo, hi) ==
  LET keep == {r \in DOMAIN L : r.emp_id = emp_id /\ r.day >= lo /\ r.day < hi}
  IN  [r \in keep |-> L[r]]

----------------------------------------------------------------------------
(* State *)

VARIABLES
  employees,    \* table employees: emp_id -> row
  attendance,   \* table attendance as committed: what any new connection reads
  bonuses,      \* table bonuses
  deductions,   \* table deductions
  pending,      \* the table as seen inside the open write transaction
  wlock,        \* the session whose connection holds SQLite's write lock
  calmap,       \* st.session_state[sess_key] of each session: the draft
  scope,        \* the employee, year and month each session's calendar shows
  overwrite,    \* the "Overwrite existing when saving" checkbox at the save
  pc,           \* where each session's save handler stands
  pos,          \* the day the save loop of each session is at
  raced,        \* history: the save handler of another session ran during this one
  presses,      \* history: the clicks of each session in a row on one day
  stable,       \* history: the table as the last completed transaction left it
  log,          \* history: the completed saves since the last single entry, two at most
  payroll,      \* the last result of payroll_df
  payslip,      \* the last payslip of ui_payslip
  adds, saves, edits   \* counters that bound a behaviour

vars == <<employees, attendance, bonuses, deductions, pending, wlock, calmap,
          scope, overwrite, pc, pos, raced, presses, stable, log, payroll,
          payslip,
          adds, saves, edits>>

tables == <<employees, attendance, bonuses, deductions>>
txn == <<pending, wlock>>
session == <<calmap, scope, overwrite, pc, pos, raced, presses>>
counters == <<adds, saves, edits>>

Days == 1..NumDays

Drafts == [Days -> STATUSES \cup {None}]

\* the employees without the filter on active
ActiveEmps_all == DOMAIN employees

\* SELECT emp_id ... FROM employees WHERE active=1
ActiveEmps == {e \in DOMAIN employees : employees[e].active}

----------------------------------------------------------------------------
(* Connections and transactions (get_conn, sqlite3) *)

\* a write statement needs the database's write lock: free, or already held
\* by the same connection
CanWrite(s) == wlock \in {NoLock, s}

\* the table as the connection of session s sees it
View(s) == IF wlock = s THEN pending ELSE attendance

\* every statement committed by itself, as the helper execute() does
Exec_autocommit(s, L) == [attendance |-> L, pending |-> L, wlock |-> NoLock]

\* cur.execute(...) on the connection of the save handler: the statement
\* opens or continues that connection's transaction, and nothing reaches the
\* committed table before conn.commit()
Exec(s, L) == [attendance |-> attendance, pending |-> L, wlock |-> s]

\* a reader on the connection of the running save
ReadView_uncommitted == IF wlock # NoLock THEN pending ELSE attendance

\* df_from_query: what a reader gets at this moment; it opens a new
\* connection, which reads the committed table
ReadView == attendance

----------------------------------------------------------------------------
(* The calendar draft *)

\* the draft created with every day unset, whatever the table holds
SeedDrafts_unseeded(L, emp_id, year, month) ==
  {[d \in Days |-> None]}

\* existing_map: day of month -> status of a durable row of that day; with
\* several rows for one day the row the query returns last wins, and the
\* query has no ORDER BY
SeedDrafts(L, emp_id, year, month) ==
  LET b    == month_bounds(year, month)
      ex   == SelectRange(L, emp_id, b[1], b[2])
      of(d) == {r.status : r \in {x \in DOMAIN ex : DayOfMonth(x.day) = d}}
  IN  {f \in Drafts : \A d \in Days :
         IF of(d) = {} THEN f[d] = None ELSE f[d] \in of(d)}

\* a value outside the cycle taken for the element before the last
CycleIndex_beforeLast(cur) ==
  IF \E i \in 1..Len(cycle) : cycle[i] = cur
    THEN CHOOSE i \in 1..Len(cycle) : cycle[i] = cur
    ELSE Len(cycle) - 1

\* cycle.index(cur) if cur in cycle else len(cycle)-1, with 1-based positions
CycleIndex(cur) ==
  IF \E i \in 1..Len(cycle) : cycle[i] = cur
    THEN CHOOSE i \in 1..Len(cycle) : cycle[i] = cur
    ELSE Len(cycle)

\* the cycle without the wrap from its last element to its first
advance_noWrap(cur) ==
  IF CycleIndex(cur) = Len(cycle) THEN cur ELSE cycle[CycleIndex(cur) + 1]

\* cycle[(idx+1) % len(cycle)], with 1-based positions
advance(cur) == cycle[(CycleIndex(cur) % Len(cycle)) + 1]

\* no click yet on the draft as it stands
NoPresses == [day |-> 0, from |-> None, n |-> 0]

\* the first view of the calendar for a scope creates the draft
OpenCalendar(s, emp_id, year, month) ==
  /\ calmap[s] = NoDraft
  /\ pc[s] = "idle"
  /\ emp_id \in ActiveEmps
  /\ \E f \in SeedDrafts(ReadView, emp_id, year, month) :
       calmap' = [calmap EXCEPT ![s] = f]
  /\ scope' = [scope EXCEPT ![s] = [emp_id |-> emp_id, year |-> year, month |-> month]]
  /\ UNCHANGED <<tables, txn, overwrite, pc, pos, raced, presses, stable, log, payroll,
                 payslip, counters>>

Click(s, d) ==
  /\ calmap[s] # NoDraft
  /\ pc[s] = "idle"
  /\ calmap' = [calmap EXCEPT ![s][d] = advance(calmap[s][d])]
  /\ presses' = [presses EXCEPT ![s] =
                   IF @.day = d THEN [@ EXCEPT !.n = @ + 1]
                   ELSE [day |-> d, from |-> calmap[s][d], n |-> 1]]
  /\ edits' = edits + 1
  /\ UNCHANGED <<tables, txn, scope, overwrite, pc, pos, raced, stable, log, payroll,
                 payslip, adds, saves>>

\* the first bound taken for the smaller one
Min_first(a, b) == a

Min(a, b) == IF a <= b THEN a ELSE b
Max(a, b) == IF a >= b THEN a ELSE b

ApplyRange(s, d_start, d_end, rstatus) ==
  /\ calmap[s] # NoDraft
  /\ pc[s] = "idle"
  /\ LET a == Min(d_start, d_end)
         b == Max(d_start, d_end)
     IN  calmap' = [calmap EXCEPT ![s] =
                      [d \in Days |-> IF a <= d /\ d <= b THEN rstatus ELSE @[d]]]
  /\ presses' = [presses EXCEPT ![s] = NoPresses]
  /\ edits' = edits + 1
  /\ UNCHANGED <<tables, txn, scope, overwrite, pc, pos, raced, stable, log, payroll,
                 payslip, adds, saves>>

FillEmpty(s) ==
  /\ calmap[s] # NoDraft
  /\ pc[s] = "idle"
  /\ calmap' = [calmap EXCEPT ![s] =
                  [d \in Days |-> IF @[d] = None THEN "Present" ELSE @[d]]]
  /\ presses' = [presses EXCEPT ![s] = NoPresses]
  /\ edits' = edits + 1
  /\ UNCHANGED <<tables, txn, scope, overwrite, pc, pos, raced, stable, log, payroll,
                 payslip, adds, saves>>

----------------------------------------------------------------------------
(* Saving the draft: "Save to database" *)

\* the DELETE left out of the branch of an unset cell
DeletesDay_onlySet(ow, st) == ow /\ st # None

\* the DELETE left out before the INSERT
DeletesDay_onlyUnset(ow, st) == ow /\ st = None

\* the DELETE run whatever the overwrite box says
DeletesDay_always(ow, st) == TRUE

\* the DELETE of a day runs when the overwrite box is ticked, for a set cell
\* and for an unset one alike
DeletesDay(ow, st) == ow

\* the INSERT of a day runs when the draft cell holds a status
InsertsDay(st) == st # None

ScopeDay(s, d) == isoformat(scope[s].year, scope[s].month, d)

\* a completed save, as the history keeps it: its inputs and the table it
\* started from
Entry(s, before) ==
  [sess |-> s, emp_id |-> scope[s].emp_id, year |-> scope[s].year,
   month |-> scope[s].month, draft |-> calmap[s], overwrite |-> overwrite[s],
   before |-> before, raced |-> raced[s]]

Push(e) == IF Len(log) < 2 THEN Append(log, e) ELSE <<log[2], e>>

\* the whole loop of one save, from the table L on
RECURSIVE SaveLoop(_, _, _, _, _, _, _)
SaveLoop(L, emp_id, year, month, draft, ow, d) ==
  IF d > NumDays THEN L
  ELSE LET dstr == isoformat(year, month, d)
           L1 == IF DeletesDay(ow, draft[d]) THEN DeleteStmt(L, emp_id, dstr) ELSE L
           L2 == IF InsertsDay(draft[d])
                   THEN InsertStmt(L1, Row(dstr, emp_id, draft[d], CalendarNote))
                   ELSE L1
       IN  SaveLoop(L2, emp_id, year, month, draft, ow, d + 1)

\* the button is pressed: the handler opens its connection and enters the loop
Save(s, ow) ==
  /\ calmap[s] # NoDraft
  /\ pc[s] = "idle"
  /\ saves < MaxSaves
  /\ saves' = saves + 1
  /\ overwrite' = [overwrite EXCEPT ![s] = ow]
  /\ pc' = [pc EXCEPT ![s] = "for"]
  /\ pos' = [pos EXCEPT ![s] = 1]
  /\ raced' = [t \in Sessions |->
                 IF t = s THEN \E u \in Sessions \ {s} : pc[u] # "idle"
                 ELSE raced[t] \/ pc[t] # "idle"]
  /\ UNCHANGED <<tables, txn, calmap, presses, scope, stable, log, payroll, payslip, adds, edits>>

\* one pass of "for d, s in calmap.items()" up to its INSERT
ForStep(s) ==
  /\ pc[s] = "for"
  /\ pos[s] <= NumDays
  /\ LET d  == pos[s]
         st == calmap[s][d]
     IN  /\ IF DeletesDay(overwrite[s], st)
              THEN /\ CanWrite(s)
                   /\ LET r == Exec(s, DeleteStmt(View(s), scope[s].emp_id, ScopeDay(s, d)))
                      IN  /\ attendance' = r.attendance
                          /\ pending' = r.pending
                          /\ wlock' = r.wlock
              ELSE UNCHANGED <<attendance, pending, wlock>>
         /\ IF InsertsDay(st)
              THEN /\ pc' = [pc EXCEPT ![s] = "insert"]
                   /\ pos' = pos
              ELSE /\ pc' = pc
                   /\ pos' = [pos EXCEPT ![s] = d + 1]
  /\ UNCHANGED <<employees, bonuses, deductions, calmap, presses, scope, overwrite, raced,
                 stable, log, payroll, payslip, counters>>

\* the INSERT OR IGNORE of the day, with the note "calendar"
InsertStep(s) ==
  /\ pc[s] = "insert"
  /\ CanWrite(s)
  /\ LET d == pos[s]
         r == Exec(s, InsertStmt(View(s),
                     Row(ScopeDay(s, d), scope[s].emp_id, calmap[s][d], CalendarNote)))
     IN  /\ attendance' = r.attendance
         /\ pending' = r.pending
         /\ wlock' = r.wlock
         /\ pc' = [pc EXCEPT ![s] = "for"]
         /\ pos' = [pos EXCEPT ![s] = d + 1]
  /\ UNCHANGED <<employees, bonuses, deductions, calmap, presses, scope, overwrite, raced,
                 stable, log, payroll, payslip, counters>>

\* conn.commit() after the loop
CommitStep(s) ==
  /\ pc[s] = "for"
  /\ pos[s] > NumDays
  /\ attendance' = View(s)
  /\ pending' = IF wlock = s THEN attendance' ELSE pending
  /\ wlock' = IF wlock = s THEN NoLock ELSE wlock
  /\ stable' = attendance'
  /\ log' = Push(Entry(s, stable))
  /\ pc' = [pc EXCEPT ![s] = "idle"]
  /\ pos' = [pos EXCEPT ![s] = 1]
  /\ UNCHANGED <<employees, bonuses, deductions, calmap, presses, scope, overwrite,
                 raced, payroll, payslip, counters>>

\* a write statement that finds the lock held by another connection times
\* out with "database is locked": the handler ends with nothing written
Busy(s) ==
  /\ \/ pc[s] = "insert"
     \/ pc[s] = "for" /\ pos[s] <= NumDays /\ DeletesDay(overwrite[s], calmap[s][pos[s]])
  /\ ~CanWrite(s)
  /\ pc' = [pc EXCEPT ![s] = "idle"]
  /\ pos' = [pos EXCEPT ![s] = 1]
  /\ UNCHANGED <<tables, txn, calmap, presses, scope, overwrite, raced, stable, log,
                 payroll, payslip, counters>>

----------------------------------------------------------------------------
(* Single entry (ui_attendance) *)

\* execute("INSERT INTO attendance ..."): one statement, committed at once
AddAttendance(dstr, emp_id, status, note) ==
  /\ adds < MaxAdds
  /\ emp_id \in ActiveEmps
  /\ wlock = NoLock
  /\ attendance' = InsertStmt(attendance, Row(dstr, emp_id, status, note))
  /\ pending' = attendance'
  /\ stable' = attendance'
  /\ log' = <<>>
  /\ adds' = adds + 1
  /\ UNCHANGED <<employees, bonuses, deductions, wlock, session, payroll, payslip,
                 saves, edits>>

----------------------------------------------------------------------------
(* The calendar specification *)

Roster ==
  [e \in Emps |->
     IF e = "E1"
       THEN [salary_type |-> "Monthly", monthly_salary |-> 3000000, per_day_rate |-> NULL,
             active |-> TRUE]
       ELSE [salary_type |-> "PerDay", monthly_salary |-> NULL, per_day_rate |-> 50000,
             active |-> TRUE]]

\* the attendance table found in payroll.db when the program starts: rows of
\* earlier single entries, the same day entered more than once included
InitLedgers ==
  SubBag(  [r \in {Row(isoformat(2024, 12, 1), "E1", "Present", "manual")} |-> MaxCopies]
       (+) SetToBag({Row(isoformat(2024, 12, 1), "E1", "Weekly Off", "manual"),
                     Row(isoformat(2024, 12, 2), "E2", "Half Day", "manual"),
                     Row(isoformat(2025, 1, 1), "E1", "Absent", "manual")}))

NoPayroll == [year |-> 0, month |-> 0, rows |-> <<>>]

NoPayslip == [EmpID |-> ""]

\* the attendance table of the concurrent specification at the start
ConcLedgers ==
  SubBag(SetToBag({Row(isoformat(2024, 12, 1), "E1", "Present", "manual"),
                   Row(isoformat(2024, 12, 2), "E2", "Half Day", "manual"),
                   Row(isoformat(2025, 1, 1), "E1", "Absent", "manual")}))

Start(ledgers) ==
  /\ employees = Roster
  /\ attendance \in ledgers
  /\ bonuses = EmptyBag
  /\ deductions = EmptyBag
  /\ pending = attendance
  /\ wlock = NoLock
  /\ calmap = [s \in Sessions |-> NoDraft]
  /\ scope = [s \in Sessions |-> NoScope]
  /\ overwrite = [s \in Sessions |-> TRUE]
  /\ pc = [s \in Sessions |-> "idle"]
  /\ pos = [s \in Sessions |-> 1]
  /\ raced = [s \in Sessions |-> FALSE]
  /\ presses = [s \in Sessions |-> NoPresses]
  /\ stable = attendance
  /\ log = <<>>
  /\ payroll = NoPayroll
  /\ payslip = NoPayslip
  /\ adds = 0
  /\ saves = 0
  /\ edits = 0

Init == Start(InitLedgers)

\* what one session can do
SessionStep(s) ==
  \/ \E e \in Emps, ym \in CalMonths : OpenCalendar(s, e, ym[1], ym[2])
  \/ edits < MaxEdits /\ \E d \in Days : Click(s, d)
  \/ edits < MaxEdits /\ \E a \in Days, b \in Days, st \in STATUSES : ApplyRange(s, a, b, st)
  \/ edits < MaxEdits /\ FillEmpty(s)
  \/ \E ow \in BOOLEAN : Save(s, ow)
  \/ ForStep(s)
  \/ InsertStep(s)
  \/ CommitStep(s)

SingleEntry ==
  \E d \in LedgerDays, e \in Emps, st \in EntryStatuses, n \in Notes :
     AddAttendance(d, e, st, n)

\* one editing session, single entries and a reader
Next ==
  \/ SessionStep("S1")
  \/ SingleEntry

Spec == Init /\ [][Next]_vars

----------------------------------------------------------------------------
(* The concurrent specification: two editing sessions *)

NextConc ==
  \/ \E s \in Sessions : SessionStep(s)
  \/ \E s \in Sessions : Busy(s)

InitConc == Start(ConcLedgers)

SpecConc == InitConc /\ [][NextConc]_vars

----------------------------------------------------------------------------
(* The draft specifications: one session editing its draft *)

\* the edits of the draft of session S1
DraftEdit ==
  /\ edits < MaxClicks
  /\ \/ \E d \in Days : Click("S1", d)
     \/ \E a \in Days, b \in Days, st \in STATUSES : ApplyRange("S1", a, b, st)
     \/ FillEmpty("S1")

\* the attendance table of the draft specification at the start
CalLedgers ==
  SubBag(SetToBag({Row(isoformat(2024, 12, 1), "E1", "Present", "manual"),
                   Row(isoformat(2024, 12, 2), "E2", "Half Day", "manual")}))

InitCal == Start(CalLedgers)

NextCal ==
  \/ \E e \in Emps, ym \in CalMonths : OpenCalendar("S1", e, ym[1], ym[2])
  \/ DraftEdit

SpecCal == InitCal /\ [][NextCal]_vars

\* values of a draft cell outside the cycle, for the defensive branch of the
\* click handler
OtherValues == {"Leave"}

\* the click handler on any cell value: the draft of S1 starts with any
\* values, those outside the cycle included
InitAdvance ==
  /\ employees = Roster
  /\ attendance = EmptyBag
  /\ bonuses = EmptyBag
  /\ deductions = EmptyBag
  /\ pending = attendance
  /\ wlock = NoLock
  /\ \E f \in [Days -> STATUSES \cup {None} \cup OtherValues] :
       calmap = [s \in Sessions |-> IF s = "S1" THEN f ELSE NoDraft]
  /\ scope = [s \in Sessions |->
                IF s = "S1" THEN [emp_id |-> "E1", year |-> 2024, month |-> 12]
                ELSE NoScope]
  /\ overwrite = [s \in Sessions |-> TRUE]
  /\ pc = [s \in Sessions |-> "idle"]
  /\ pos = [s \in Sessions |-> 1]
  /\ raced = [s \in Sessions |-> FALSE]
  /\ presses = [s \in Sessions |-> NoPresses]
  /\ stable = attendance
  /\ log = <<>>
  /\ payroll = NoPayroll
  /\ payslip = NoPayslip
  /\ adds = 0
  /\ saves = 0
  /\ edits = 0

SpecAdvance == InitAdvance /\ [][DraftEdit]_vars

----------------------------------------------------------------------------
(* Payroll (payroll_df) *)

\* (year, month) pairs the payroll is computed for
PayMonths == {<<2024, 12>>, <<2025, 1>>}
\* monthly salaries and per-day rates of the roster, in paise
Salaries == {10001, 10010, 3000000}
Rates == {1, 50000}
\* amounts typed into the bonus and deduction forms, in paise
BonusAmounts == {50000}
DeductionAmounts == {30000}
DTypes == {"Advance", "Other"}

\* exact amounts are kept in 1/Unit paisa: the quotient by LEAVE_DIVISOR and
\* the half of a half day are then whole numbers
Unit == 2 * LEAVE_DIVISOR

\* SUM(CASE WHEN status=? THEN 1 ELSE 0 END) ... WHERE day>=? AND day<?
\* GROUP BY emp_id, and 0 for an employee without rows (left merge, fillna)
Tally(L, emp_id, status, lo, hi) ==
  LET keep == {r \in DOMAIN L : /\ r.emp_id = emp_id
                                /\ r.status = status
                                /\ r.day >= lo /\ r.day < hi}
  IN  BagCardinality([r \in keep |-> L[r]])

RECURSIVE SumRows(_, _)
SumRows(B, rows) ==
  IF rows = {} THEN 0
  ELSE LET r == CHOOSE x \in rows : TRUE
       IN  r.amount * B[r] + SumRows(B, rows \ {r})

\* COALESCE(SUM(amount),0) ... WHERE day>=? AND day<? GROUP BY emp_id
SumAmount(B, emp_id, lo, hi) ==
  SumRows(B, {r \in DOMAIN B : r.emp_id = emp_id /\ r.day >= lo /\ r.day < hi})

\* float(x or 0)
OrZero(x) == IF x = NULL THEN 0 ELSE x

\* round(x, 2) of an exact amount x, in paise: the nearest paisa; an exact
\* half paisa goes where the binary value of the float falls, up or down
Round2(x) ==
  LET q == x \div Unit
      m == x % Unit
  IN  IF 2 * m < Unit THEN {q}
      ELSE IF 2 * m > Unit THEN {q + 1}
      ELSE {q, q + 1}

\* the leave deduction with a half day counted as a whole day
MonthlyLeave_wholeHalf(base, absent, half_day) ==
  base * (Unit \div LEAVE_DIVISOR) * (absent + half_day)

\* the leave deduction per working day, 26 to the month
MonthlyLeave_perWorkingDay(base, absent, half_day) ==
  (base * Unit * (2 * absent + half_day)) \div (2 * 26)

\* leave = (base / LEAVE_DIVISOR) * (absent + 0.5 * half_day), in 1/Unit paisa
MonthlyLeave(base, absent, half_day) ==
  (base * (Unit \div LEAVE_DIVISOR) * (2 * absent + half_day)) \div 2

\* the per-day base without the half days
PerDayBase_presentOnly(rate, present, half_day) ==
  Unit * present * rate

\* base = (present + 0.5 * half_day) * rate, in 1/Unit paisa
PerDayBase(rate, present, half_day) ==
  ((Unit \div 2) * (2 * present + half_day)) * rate

\* the rows payroll_df can append for one employee; two fields that hold the
\* same value are rounded alike
PayrollRows(emp_id, lo, hi) ==
  LET r        == employees[emp_id]
      present  == Tally(attendance, emp_id, "Present", lo, hi)
      half_day == Tally(attendance, emp_id, "Half Day", lo, hi)
      absent   == Tally(attendance, emp_id, "Absent", lo, hi)
      bonus    == SumAmount(bonuses, emp_id, lo, hi)
      deduction == SumAmount(deductions, emp_id, lo, hi)
      base     == IF r.salary_type = "Monthly"
                    THEN Unit * OrZero(r.monthly_salary)
                    ELSE PerDayBase(OrZero(r.per_day_rate), present, half_day)
      leave    == IF r.salary_type = "Monthly"
                    THEN MonthlyLeave(OrZero(r.monthly_salary), absent, half_day)
                    ELSE 0
      gross    == base - leave + Unit * bonus
      net      == gross - Unit * deduction
      alike(x) == /\ gross = base => x.Gross = x.Base
                  /\ net = gross => x.Net = x.Gross
      rounded  == {[EmpID |-> emp_id, Type |-> r.salary_type,
                    Present |-> present, Half |-> half_day, Absent |-> absent,
                    Base |-> b, LeaveDed |-> l, Bonus |-> bonus,
                    Deduction |-> deduction, Gross |-> g, Net |-> n] :
                     b \in Round2(base), l \in Round2(leave),
                     g \in Round2(gross), n \in Round2(net)}
  IN  {x \in rounded : alike(x)}

\* the results of the loop over df.iterrows(): a row for each of emps
RECURSIVE RowChoices(_, _, _)
RowChoices(emps, lo, hi) ==
  IF emps = {} THEN {<<>>}
  ELSE LET e == CHOOSE x \in emps : TRUE
       IN  {(e :> r) @@ f : r \in PayrollRows(e, lo, hi), f \in RowChoices(emps \ {e}, lo, hi)}

\* payroll_df(year, month): one row for every employee with active=1
Payroll(year, month) ==
  /\ LET b == month_bounds(year, month)
     IN  \E rows \in RowChoices(ActiveEmps, b[1], b[2]) :
           payroll' = [year |-> year, month |-> month, rows |-> rows]
  /\ payroll' # payroll
  /\ UNCHANGED <<tables, txn, session, stable, log, payslip, counters>>

\* execute("INSERT INTO bonuses(day,emp_id,amount,note) ...")
AddBonus(dstr, emp_id, amount, note) ==
  /\ adds < MaxAdds
  /\ emp_id \in ActiveEmps
  /\ bonuses' = bonuses (+) SetToBag({[day |-> dstr, emp_id |-> emp_id,
                                        amount |-> amount, note |-> note]})
  /\ adds' = adds + 1
  /\ UNCHANGED <<employees, attendance, deductions, txn, session, stable, log,
                 payroll, payslip, saves, edits>>

\* execute("INSERT INTO deductions(day,emp_id,dtype,amount,note) ...")
AddDeduction(dstr, emp_id, dtype, amount, note) ==
  /\ adds < MaxAdds
  /\ emp_id \in ActiveEmps
  /\ deductions' = deductions (+) SetToBag({[day |-> dstr, emp_id |-> emp_id,
                                             dtype |-> dtype, amount |-> amount,
                                             note |-> note]})
  /\ adds' = adds + 1
  /\ UNCHANGED <<employees, attendance, bonuses, txn, session, stable, log,
                 payroll, payslip, saves, edits>>

\* the rows of the employees table the forms can store: the salary field of
\* the other salary type is NULL
MonthlyRows ==
  {[salary_type |-> "Monthly", monthly_salary |-> x, per_day_rate |-> NULL, active |-> a] :
     x \in Salaries, a \in BOOLEAN}

PerDayRows ==
  {[salary_type |-> "PerDay", monthly_salary |-> NULL, per_day_rate |-> x, active |-> a] :
     x \in Rates, a \in BOOLEAN}

\* the rosters of the payroll specification: a Monthly and a PerDay employee
PayRosters ==
  {[e \in Emps |-> IF e = "E1" THEN m ELSE p] : m \in MonthlyRows, p \in PerDayRows}

\* attendance tallies of one employee in a table the payroll starts with
Tallies ==
  {[present |-> 0, half_day |-> 0, absent |-> 0],
   [present |-> 1, half_day |-> 1, absent |-> 0],
   [present |-> 0, half_day |-> 1, absent |-> 1],
   [present |-> 20, half_day |-> 2, absent |-> 3]}

TallyRows(emp_id, t) ==
  LET day1 == isoformat(2024, 12, 1)
      n(st) == IF st = "Present" THEN t.present
               ELSE IF st = "Half Day" THEN t.half_day
               ELSE IF st = "Absent" THEN t.absent ELSE 0
      sts == {st \in STATUSES : n(st) > 0}
  IN  [r \in {Row(day1, emp_id, st, "manual") : st \in sts} |-> n(r.status)]

\* the attendance tables the payroll specification starts with
PayLedgers ==
  {TallyRows("E1", t1) (+) TallyRows("E2", t2) : t1 \in Tallies, t2 \in Tallies}

InitPay ==
  /\ employees \in PayRosters
  /\ attendance \in PayLedgers
  /\ bonuses = EmptyBag
  /\ deductions = EmptyBag
  /\ pending = attendance
  /\ wlock = NoLock
  /\ calmap = [s \in Sessions |-> NoDraft]
  /\ scope = [s \in Sessions |-> NoScope]
  /\ overwrite = [s \in Sessions |-> TRUE]
  /\ pc = [s \in Sessions |-> "idle"]
  /\ pos = [s \in Sessions |-> 1]
  /\ raced = [s \in Sessions |-> FALSE]
  /\ presses = [s \in Sessions |-> NoPresses]
  /\ stable = attendance
  /\ log = <<>>
  /\ payroll = NoPayroll
  /\ payslip = NoPayslip
  /\ adds = 0
  /\ saves = 0
  /\ edits = 0

NextPay ==
  \/ SingleEntry
  \/ \E d \in LedgerDays, e \in Emps, x \in BonusAmounts, n \in Notes : AddBonus(d, e, x, n)
  \/ \E d \in LedgerDays, e \in Emps, t \in DTypes, x \in DeductionAmounts, n \in Notes :
       AddDeduction(d, e, t, x, n)
  \/ \E ym \in PayMonths : Payroll(ym[1], ym[2])

SpecPay == InitPay /\ [][NextPay]_vars

----------------------------------------------------------------------------
(* Payroll of whole months: a ledger with a record on every day *)

\* the days of a month of the calendar
MonthLength(year, month) ==
  IF month = 2
    THEN IF year % 4 = 0 /\ (year % 100 # 0 \/ year % 400 = 0) THEN 29 ELSE 28
    ELSE IF month \in {4, 6, 9, 11} THEN 30 ELSE 31

\* months of 28, 29, 30 and 31 days
LeaveMonths == {<<2025, 2>>, <<2024, 2>>, <<2025, 4>>, <<2025, 3>>}

\* single entries of one employee, one to a day: absent on the first a days
\* of the month and a half day on the h days after them
LeaveLedger(year, month, a, h) ==
  SetToBag({Row(isoformat(year, month, d), "E1",
                IF d <= a THEN "Absent" ELSE "Half Day", "manual") : d \in 1..(a + h)})

LeaveLedgers ==
  LET counts(n) == {c \in (0..n) \X (0..n) : c[1] + c[2] <= n}
  IN  UNION {{LeaveLedger(ym[1], ym[2], c[1], c[2]) :
                c \in counts(MonthLength(ym[1], ym[2]))} : ym \in LeaveMonths}

LeaveRosters ==
  {r \in PayRosters : r["E1"].active /\ ~r["E2"].active /\ r["E2"].per_day_rate = 50000}

InitLeave ==
  /\ employees \in LeaveRosters
  /\ attendance \in LeaveLedgers
  /\ bonuses = EmptyBag
  /\ deductions = EmptyBag
  /\ pending = attendance
  /\ wlock = NoLock
  /\ calmap = [s \in Sessions |-> NoDraft]
  /\ scope = [s \in Sessions |-> NoScope]
  /\ overwrite = [s \in Sessions |-> TRUE]
  /\ pc = [s \in Sessions |-> "idle"]
  /\ pos = [s \in Sessions |-> 1]
  /\ raced = [s \in Sessions |-> FALSE]
  /\ presses = [s \in Sessions |-> NoPresses]
  /\ stable = attendance
  /\ log = <<>>
  /\ payroll = NoPayroll
  /\ payslip = NoPayslip
  /\ adds = 0
  /\ saves = 0
  /\ edits = 0

NextLeave == \E ym \in LeaveMonths : Payroll(ym[1], ym[2])

SpecLeave == InitLeave /\ [][NextLeave]_vars

----------------------------------------------------------------------------
(* Payslip (ui_payslip) *)

\* the range without its last day
SelectSlip_halfOpen(B, emp_id, from, to) ==
  LET keep == {r \in DOMAIN B : r.emp_id = emp_id /\ r.day >= from /\ r.day < to}
  IN  [r \in keep |-> B[r]]

\* ... WHERE emp_id=? AND day>=? AND day<=?
SelectSlip(B, emp_id, from, to) ==
  LET keep == {r \in DOMAIN B : r.emp_id = emp_id /\ r.day >= from /\ r.day <= to}
  IN  [r \in keep |-> B[r]]

\* the rows in any order
RECURSIVE OrderByDay_unordered(_)
OrderByDay_unordered(B) ==
  IF B = EmptyBag THEN {<<>>}
  ELSE UNION {{<<r>> \o q : q \in OrderByDay_unordered(B (-) SetToBag({r}))} :
                r \in DOMAIN B}

\* ... ORDER BY day: the rows by ascending day; SQL leaves the order of the
\* rows of one day open
RECURSIVE OrderByDay(_)
OrderByDay(B) ==
  IF B = EmptyBag THEN {<<>>}
  ELSE LET firsts == {r \in DOMAIN B : \A x \in DOMAIN B : r.day <= x.day}
       IN  UNION {{<<r>> \o q : q \in OrderByDay(B (-) SetToBag({r}))} :
                    r \in firsts}

\* SELECT day, amount, note
BonusItem(r) == [day |-> r.day, amount |-> r.amount, note |-> r.note]

\* SELECT day, dtype, amount, note
DeductionItem(r) == [day |-> r.day, dtype |-> r.dtype, amount |-> r.amount, note |-> r.note]

\* bon["amount"].sum()
RECURSIVE SumItems(_)
SumItems(q) == IF q = <<>> THEN 0 ELSE Head(q).amount + SumItems(Tail(q))

\* int(att.iloc[0][...] or 0) of SUM(CASE WHEN status=? THEN 1 ELSE 0 END)
SlipTally(emp_id, status, from, to) ==
  LET sel  == SelectSlip(attendance, emp_id, from, to)
      keep == {r \in DOMAIN sel : r.status = status}
  IN  BagCardinality([r \in keep |-> sel[r]])

\* the payslips "Generate payslip" can show for one employee and range
PayslipRows(emp_id, start_date, end_date) ==
  LET erow     == employees[emp_id]
      present  == SlipTally(emp_id, "Present", start_date, end_date)
      half_day == SlipTally(emp_id, "Half Day", start_date, end_date)
      absent   == SlipTally(emp_id, "Absent", start_date, end_date)
      bons     == OrderByDay(SelectSlip(bonuses, emp_id, start_date, end_date))
      deds     == OrderByDay(SelectSlip(deductions, emp_id, start_date, end_date))
      base     == IF erow.salary_type = "Monthly"
                    THEN Unit * OrZero(erow.monthly_salary)
                    ELSE PerDayBase(OrZero(erow.per_day_rate), present, half_day)
      leave    == IF erow.salary_type = "Monthly"
                    THEN MonthlyLeave(OrZero(erow.monthly_salary), absent, half_day)
                    ELSE 0
      slips(bon, ded) ==
        LET sum_bonus == SumItems(bon)
            sum_ded   == SumItems(ded)
            gross     == base - leave + Unit * sum_bonus
            net       == gross - Unit * sum_ded
        IN  {[EmpID |-> emp_id, From |-> start_date, To |-> end_date,
              Type |-> erow.salary_type,
              Present |-> present, HalfDay |-> half_day, Absent |-> absent,
              Base |-> b, LeaveDeduction |-> l,
              Bonuses |-> sum_bonus, Deductions |-> sum_ded, Net |-> n,
              bon |-> [i \in 1..Len(bon) |-> BonusItem(bon[i])],
              ded |-> [i \in 1..Len(ded) |-> DeductionItem(ded[i])]] :
               b \in Round2(base), l \in Round2(leave),
               n \in Round2(net)}
      alike(x) == (leave = 0 /\ x.Bonuses = 0 /\ x.Deductions = 0) => x.Net = x.Base
  IN  {x \in UNION {slips(bon, ded) : bon \in bons, ded \in deds} : alike(x)}

\* the button "Generate payslip", for an employee of the selectbox
Payslip(emp_id, start_date, end_date) ==
  /\ emp_id \in ActiveEmps
  /\ \E x \in PayslipRows(emp_id, start_date, end_date) : payslip' = x
  /\ UNCHANGED <<tables, txn, session, stable, log, payroll, counters>>

\* the rosters of the payslip specification
SlipRosters ==
  {r \in PayRosters : /\ r["E1"].active /\ r["E2"].active
                      /\ r["E1"].monthly_salary = 10010
                      /\ r["E2"].per_day_rate = 50000}

LastDay == isoformat(2024, 12, NumDays)

\* the ledgers the payslip specification starts with: records on the first
\* and the last day of a month and on the first day of the next one
SlipAttendance ==
  LET other == SetToBag({Row(LastDay, "E2", "Half Day", "manual")})
      own   == SetToBag({Row(isoformat(2024, 12, 1), "E1", "Half Day", "manual"),
                         Row(LastDay, "E1", "Absent", "manual"),
                         Row(isoformat(2025, 1, 1), "E1", "Absent", "manual")})
  IN  {B (+) other : B \in SubBag(own)}

SlipBonuses ==
  LET other == SetToBag({[day |-> isoformat(2024, 12, 1), emp_id |-> "E2",
                          amount |-> 50000, note |-> "manual"]})
      own   == SetToBag({[day |-> LastDay, emp_id |-> "E1", amount |-> 100000,
                          note |-> "manual"],
                         [day |-> isoformat(2024, 12, 1), emp_id |-> "E1",
                          amount |-> 50000, note |-> "manual"],
                         [day |-> isoformat(2025, 1, 1), emp_id |-> "E1",
                          amount |-> 50000, note |-> "manual"]})
  IN  {B (+) other : B \in SubBag(own)}

SlipDeductions ==
  {EmptyBag,
   SetToBag({[day |-> LastDay, emp_id |-> "E1", dtype |-> "Advance",
              amount |-> 30000, note |-> "manual"],
             [day |-> isoformat(2025, 1, 1), emp_id |-> "E1", dtype |-> "Other",
              amount |-> 30000, note |-> "manual"]})}

InitSlip ==
  /\ employees \in SlipRosters
  /\ attendance \in SlipAttendance
  /\ bonuses \in SlipBonuses
  /\ deductions \in SlipDeductions
  /\ pending = attendance
  /\ wlock = NoLock
  /\ calmap = [s \in Sessions |-> NoDraft]
  /\ scope = [s \in Sessions |-> NoScope]
  /\ overwrite = [s \in Sessions |-> TRUE]
  /\ pc = [s \in Sessions |-> "idle"]
  /\ pos = [s \in Sessions |-> 1]
  /\ raced = [s \in Sessions |-> FALSE]
  /\ presses = [s \in Sessions |-> NoPresses]
  /\ stable = attendance
  /\ log = <<>>
  /\ payroll = NoPayroll
  /\ payslip = NoPayslip
  /\ adds = 0
  /\ saves = 0
  /\ edits = 0

\* the dates picked as From and To: the days of the ledgers and the last day
\* of the month after
SlipDays == LedgerDays \cup {isoformat(2025, 1, monthrange(2025, 1))}

NextSlip ==
  \/ \E e \in Emps, from \in SlipDays, to \in SlipDays : Payslip(e, from, to)
  \/ \E ym \in PayMonths : Payroll(ym[1], ym[2])

SpecSlip == InitSlip /\ [][NextSlip]_vars

----------------------------------------------------------------------------
(* Properties of the reconciliation.                                       *)
(* The history holds the completed saves since the table was last changed  *)
(* by anything else, so the table a save started from is the table the     *)
(* save before it left, and the table after the last save is attendance.   *)

Last == log[Len(log)]

\* the rows of employee emp_id on the day dstr
RowsOn(L, emp_id, dstr) ==
  LET keep == {r \in DOMAIN L : r.emp_id = emp_id /\ r.day = dstr}
  IN  [r \in keep |-> L[r]]

EntryDay(e, d) == isoformat(e.year, e.month, d)

InScope(r, e) ==
  /\ r.emp_id = e.emp_id
  /\ r.day >= month_bounds(e.year, e.month)[1]
  /\ r.day < month_bounds(e.year, e.month)[2]

SameInputs(e, f) ==
  /\ e.emp_id = f.emp_id
  /\ e.year = f.year
  /\ e.month = f.month
  /\ e.draft = f.draft
  /\ e.overwrite = f.overwrite

AtMostOnePerDay(L) ==
  \A r \in DOMAIN L : BagCardinality(RowsOn(L, r.emp_id, r.day)) <= 1

\* C1: after a save with Overwrite, every day of the month has exactly one
\* row of the employee, with the draft's status, when the draft cell is set,
\* and no row when the cell is unset, whatever the table held before
C1_OverwriteLeavesTheDraft ==
  (Len(log) > 0 /\ Last.overwrite) =>
    \A d \in Days :
      LET on == RowsOn(attendance, Last.emp_id, EntryDay(Last, d))
      IN  IF Last.draft[d] = None
            THEN on = EmptyBag
            ELSE /\ BagCardinality(on) = 1
                 /\ \A r \in DOMAIN on : r.status = Last.draft[d]

\* an Overwrite save has run on a table with a doubled day whose cell is set
\* and with a recorded day whose cell is unset
C1_Witness ==
  /\ Len(log) > 0
  /\ Last.overwrite
  /\ \E d \in Days :
       /\ Last.draft[d] # None
       /\ BagCardinality(RowsOn(Last.before, Last.emp_id, EntryDay(Last, d))) >= 2
  /\ \E d \in Days :
       /\ Last.draft[d] = None
       /\ BagCardinality(RowsOn(Last.before, Last.emp_id, EntryDay(Last, d))) >= 1

\* C2: saving the same draft a second time with Overwrite leaves the table,
\* as a multiset of rows, as the first save left it
C2_OverwriteIdempotent ==
  (Len(log) = 2 /\ SameInputs(log[1], log[2]) /\ log[2].overwrite) =>
    attendance = log[2].before

\* the same draft was saved twice with Overwrite, and the first save changed
\* a table that had a doubled day
C2_Witness ==
  /\ Len(log) = 2
  /\ SameInputs(log[1], log[2])
  /\ log[2].overwrite
  /\ log[1].before # log[2].before
  /\ ~AtMostOnePerDay(log[1].before)
  /\ \E d \in Days : log[2].draft[d] # None

\* C3: saving the same draft a second time with Merge leaves the table, as a
\* multiset of rows, as the first save left it
C3_MergeIdempotent ==
  (Len(log) = 2 /\ SameInputs(log[1], log[2]) /\ ~log[2].overwrite) =>
    attendance = log[2].before

\* C4: a Merge save on a table with at most one row per employee and day
\* keeps the existing row of a day and adds no second one
C4_MergeFirstWriteWins ==
  (Len(log) > 0 /\ ~Last.overwrite /\ AtMostOnePerDay(Last.before)) =>
    /\ AtMostOnePerDay(attendance)
    /\ \A d \in Days :
         RowsOn(Last.before, Last.emp_id, EntryDay(Last, d)) # EmptyBag =>
           RowsOn(attendance, Last.emp_id, EntryDay(Last, d))
             = RowsOn(Last.before, Last.emp_id, EntryDay(Last, d))

\* C5: a Merge save deletes and alters no row that was there before it, and
\* with every cell unset it leaves the table as it was
C5_MergeKeepsRows ==
  (Len(log) > 0 /\ ~Last.overwrite) =>
    /\ Last.before \sqsubseteq attendance
    /\ (\A d \in Days : Last.draft[d] = None) => attendance = Last.before

\* a Merge save has run with a set cell on a recorded day and an unset cell
\* on another recorded day
C5_Witness ==
  /\ Len(log) > 0
  /\ ~Last.overwrite
  /\ \E d \in Days :
       /\ Last.draft[d] # None
       /\ RowsOn(Last.before, Last.emp_id, EntryDay(Last, d)) # EmptyBag
  /\ \E d \in Days :
       /\ Last.draft[d] = None
       /\ RowsOn(Last.before, Last.emp_id, EntryDay(Last, d)) # EmptyBag

\* C6: at every moment, a save between two of its statements included, a
\* reader gets the table as the last completed transaction left it: the table
\* before the running save, never one with part of the save applied
C6_ReaderSeesNoPartialSave ==
  ReadView = stable

\* a save has deleted the rows of a day and not yet inserted the new one
C6_Witness ==
  \E s \in Sessions :
    /\ wlock = s
    /\ pc[s] = "insert"
    /\ RowsOn(pending, scope[s].emp_id, ScopeDay(s, pos[s])) = EmptyBag
    /\ RowsOn(stable, scope[s].emp_id, ScopeDay(s, pos[s])) # EmptyBag

\* the rows a draft stands for
DraftBag(e) ==
  SetToBag({Row(EntryDay(e, d), e.emp_id, e.draft[d], CalendarNote) :
              d \in {x \in Days : e.draft[x] # None}})

ScopeRows(L, e) ==
  LET keep == {r \in DOMAIN L : InScope(r, e)}
  IN  [r \in keep |-> L[r]]

OtherScope(e) ==
  \E t \in Sessions \ {e.sess} :
    scope[t] = [emp_id |-> e.emp_id, year |-> e.year, month |-> e.month]

\* C7: when the saves of two sessions for the same employee and month ran at
\* the same time and the one that finished last used Overwrite, the rows of
\* that employee and month are in the end exactly the last one's draft
C7_LastCommitterWins ==
  ( /\ \A s \in Sessions : pc[s] = "idle"
    /\ Len(log) > 0
    /\ Last.raced
    /\ Last.overwrite
    /\ OtherScope(Last) ) =>
    ScopeRows(attendance, Last) = DraftBag(Last)

\* both sessions saved at the same time for one scope, the second with
\* Overwrite, and the first had set a day the second leaves unset
C7_Witness ==
  /\ \A s \in Sessions : pc[s] = "idle"
  /\ Len(log) = 2
  /\ log[1].sess # log[2].sess
  /\ log[1].raced /\ log[2].raced
  /\ OtherScope(Last)
  /\ log[2].overwrite
  /\ \E d \in Days : log[1].draft[d] # None /\ log[2].draft[d] = None

ApplySave(L, e) == SaveLoop(L, e.emp_id, e.year, e.month, e.draft, e.overwrite, 1)

\* C8: a save changes no row of another employee or of another month, and
\* two saves for different employees leave the table that the two loops leave
\* when run one after the other, in either order
C8_OtherRowsUntouched ==
  /\ Len(log) > 0 =>
       \A r \in DOMAIN attendance \cup DOMAIN Last.before :
         ~InScope(r, Last) => CopiesIn(r, attendance) = CopiesIn(r, Last.before)
  /\ (Len(log) = 2 /\ log[1].emp_id # log[2].emp_id) =>
       /\ attendance = ApplySave(ApplySave(log[1].before, log[1]), log[2])
       /\ attendance = ApplySave(ApplySave(log[1].before, log[2]), log[1])

\* two sessions saved for different employees at the same time, each save
\* changed the table, and the table has a row of another month
C8_Witness ==
  /\ Len(log) = 2
  /\ log[1].emp_id # log[2].emp_id
  /\ log[1].raced /\ log[2].raced
  /\ log[1].before # log[2].before
  /\ log[2].before # attendance
  /\ \E r \in DOMAIN attendance : ~InScope(r, log[1]) /\ ~InScope(r, log[2])

----------------------------------------------------------------------------
(* Properties of the payroll rows *)

PayRows == {payroll.rows[e] : e \in DOMAIN payroll.rows}

\* C9: in a row of a Monthly employee Base is the monthly salary and
\* LeaveDed is (salary / 30) * (Absent + 0.5 * Half) to the paisa, in every
\* month; it is 0 without absent and half days, and 4000.00 for a salary of
\* 30000.00 with 3 absent and 2 half days
C9_MonthlyBaseAndLeave ==
  \A r \in PayRows :
    r.Type = "Monthly" =>
      LET salary == employees[r.EmpID].monthly_salary
          d == 2 * 30 * r.LeaveDed - salary * (2 * r.Absent + r.Half)
      IN  /\ r.Base = salary
          /\ -30 <= d /\ d <= 30
          /\ (r.Absent = 0 /\ r.Half = 0) => r.LeaveDed = 0
          /\ (salary = 3000000 /\ r.Absent = 3 /\ r.Half = 2) => r.LeaveDed = 400000

\* the payroll has the row of a Monthly employee with a salary of 30000.00,
\* 3 absent and 2 half days
C9_Witness ==
  \E r \in PayRows :
    /\ r.Type = "Monthly"
    /\ employees[r.EmpID].monthly_salary = 3000000
    /\ r.Absent = 3 /\ r.Half = 2
    /\ r.LeaveDed = 400000

\* C10: in a row of a PerDay employee Base is rate * (Present + 0.5 * Half)
\* to the paisa and LeaveDed is 0 whatever the absent days; Base is 0 without
\* present and half days, and 10500.00 for a rate of 500.00 with 20 present
\* and 2 half days
C10_PerDayBaseAndLeave ==
  \A r \in PayRows :
    r.Type = "PerDay" =>
      LET rate == employees[r.EmpID].per_day_rate
          d == 2 * r.Base - rate * (2 * r.Present + r.Half)
      IN  /\ -1 <= d /\ d <= 1
          /\ r.LeaveDed = 0
          /\ (r.Present = 0 /\ r.Half = 0) => r.Base = 0
          /\ (rate = 50000 /\ r.Present = 20 /\ r.Half = 2) => r.Base = 1050000

\* the payroll has the row of a PerDay employee with a rate of 500.00, 20
\* present and 2 half days, and absent days
C10_Witness ==
  \E r \in PayRows :
    /\ r.Type = "PerDay"
    /\ employees[r.EmpID].per_day_rate = 50000
    /\ r.Present = 20 /\ r.Half = 2 /\ r.Absent > 0
    /\ r.Base = 1050000
    /\ r.LeaveDed = 0

\* C11: in every payroll row the emitted Gross is the emitted Base minus the
\* emitted LeaveDed plus the emitted Bonus, and the emitted Net is that minus
\* the emitted Deduction, exactly
C11_EmittedFieldsAddUp ==
  \A r \in PayRows :
    /\ r.Gross = r.Base - r.LeaveDed + r.Bonus
    /\ r.Net = r.Base - r.LeaveDed + r.Bonus - r.Deduction

\* the employee has no attendance, bonus or deduction row from lo up to hi
NoRecords(emp_id, lo, hi) ==
  \A r \in DOMAIN attendance \cup DOMAIN bonuses \cup DOMAIN deductions :
    r.emp_id = emp_id => (r.day < lo \/ r.day >= hi)

\* C12: the payroll of a month has exactly one row for every employee with
\* active = true and none for an inactive one, whatever the ledgers hold, and
\* the row of an active employee without attendance, bonus and deduction
\* records in the month has zero counts and zero totals
C12_OneRowPerActiveEmployee ==
  [][ payroll' # payroll =>
        LET b == month_bounds(payroll'.year, payroll'.month)
            rows == payroll'.rows
        IN  /\ DOMAIN rows = {e \in Emps : employees[e].active}
            /\ \A e \in DOMAIN rows :
                 /\ rows[e].EmpID = e
                 /\ NoRecords(e, b[1], b[2]) =>
                      /\ rows[e].Present = 0 /\ rows[e].Half = 0 /\ rows[e].Absent = 0
                      /\ rows[e].Bonus = 0 /\ rows[e].Deduction = 0 ]_vars

\* a payroll was computed with an inactive employee who has records in the
\* month and an active employee who has none
C12_Witness ==
  /\ payroll.year # 0
  /\ LET b == month_bounds(payroll.year, payroll.month)
     IN  /\ \E e \in Emps : ~employees[e].active /\ ~NoRecords(e, b[1], b[2])
         /\ \E e \in DOMAIN payroll.rows :
              /\ NoRecords(e, b[1], b[2])
              /\ payroll.rows[e].Present = 0 /\ payroll.rows[e].Bonus = 0

----------------------------------------------------------------------------
(* Properties of the payslip *)

\* how often x is in the list q
Count(q, x) == Cardinality({i \in 1..Len(q) : q[i] = x})

InSlipRange(r, e, from, to) == r.emp_id = e /\ from <= r.day /\ r.day <= to

\* the list q holds exactly the rows of table B of employee e with a day from
\* from to to, both included, as the items item makes of them
ListsExactly(q, B, item(_), e, from, to) ==
  /\ \A r \in DOMAIN B :
       InSlipRange(r, e, from, to) => Count(q, item(r)) = B[r]
  /\ \A i \in 1..Len(q) :
       \E r \in DOMAIN B : InSlipRange(r, e, from, to) /\ item(r) = q[i]

SortedByDay(q) == \A i \in 1..Len(q), j \in 1..Len(q) : i < j => q[i].day <= q[j].day

Amounts(q) == {q[i].amount : i \in 1..Len(q)}

\* C13: a payslip of employee e from from to to lists exactly e's bonus
\* records and exactly e's deduction records with from <= day <= to, each list
\* by ascending day, and its totals are the sums of the listed amounts:
\* bonuses of 1000.00 and 500.00 and a deduction of 300.00 give 1500.00 and
\* 300.00
C13_PayslipItemises ==
  [][ payslip' # payslip =>
          LET e    == payslip'.EmpID
              from == payslip'.From
              to   == payslip'.To
              bon  == payslip'.bon
              ded  == payslip'.ded
          IN  /\ ListsExactly(bon, bonuses, BonusItem, e, from, to)
              /\ ListsExactly(ded, deductions, DeductionItem, e, from, to)
              /\ SortedByDay(bon)
              /\ SortedByDay(ded)
              /\ payslip'.Bonuses = SumAmount(bonuses, e, from, to + 1)
              /\ payslip'.Deductions = SumAmount(deductions, e, from, to + 1)
              /\ ( /\ Len(bon) = 2 /\ Amounts(bon) = {100000, 50000}
                   /\ Len(ded) = 1 /\ Amounts(ded) = {30000} ) =>
                     payslip'.Bonuses = 150000 /\ payslip'.Deductions = 30000 ]_vars

\* a payslip lists two bonuses, one of the first and one of the last day of
\* its range, and one deduction, with totals 1500.00 and 300.00, while the
\* employee has a bonus after the range and another employee one inside it
C13_Witness ==
  /\ payslip # NoPayslip
  /\ Len(payslip.bon) = 2
  /\ payslip.bon[1].day = payslip.From
  /\ payslip.bon[2].day = payslip.To
  /\ payslip.From < payslip.To
  /\ Len(payslip.ded) = 1
  /\ payslip.Bonuses = 150000
  /\ payslip.Deductions = 30000
  /\ \E r \in DOMAIN bonuses : r.emp_id = payslip.EmpID /\ r.day > payslip.To
  /\ \E r \in DOMAIN bonuses :
       r.emp_id # payslip.EmpID /\ payslip.From <= r.day /\ r.day <= payslip.To

\* what a payroll row and a payslip both show
RowView(r) ==
  [Present |-> r.Present, Half |-> r.Half, Absent |-> r.Absent, Base |-> r.Base,
   LeaveDeduction |-> r.LeaveDed, Bonus |-> r.Bonus, Deduction |-> r.Deduction,
   Net |-> r.Net]

SlipView(x) ==
  [Present |-> x.Present, Half |-> x.HalfDay, Absent |-> x.Absent, Base |-> x.Base,
   LeaveDeduction |-> x.LeaveDeduction, Bonus |-> x.Bonuses, Deduction |-> x.Deductions,
   Net |-> x.Net]

\* the payslip is one of an employee of the payroll, from the first to the
\* last day of the month of the payroll
WholeMonthSlip ==
  /\ payroll # NoPayroll
  /\ payslip # NoPayslip
  /\ payslip.EmpID \in DOMAIN payroll.rows
  /\ payslip.From = isoformat(payroll.year, payroll.month, 1)
  /\ payslip.To = isoformat(payroll.year, payroll.month,
                            monthrange(payroll.year, payroll.month))

\* C19: the payslip of an active employee from the first to the last day of
\* a month has the counts, the bonus and deduction totals, and the Base, the
\* LeaveDeduction and the Net of the employee's payroll row of that month,
\* also with records on the first day of the next month; an amount on an
\* exact half paisa is rounded as the float falls, and there the payslip shows
\* what the payroll row can show and the other way round
C19_PayslipIsThePayrollRow ==
  WholeMonthSlip =>
    LET e   == payslip.EmpID
        row == payroll.rows[e]
        b   == month_bounds(payroll.year, payroll.month)
    IN  /\ payslip.Present = row.Present
        /\ payslip.HalfDay = row.Half
        /\ payslip.Absent = row.Absent
        /\ payslip.Bonuses = row.Bonus
        /\ payslip.Deductions = row.Deduction
        /\ SlipView(payslip) \in {RowView(r) : r \in PayrollRows(e, b[1], b[2])}
        /\ RowView(row) \in {SlipView(x) : x \in PayslipRows(e, payslip.From, payslip.To)}
        /\ Cardinality(PayrollRows(e, b[1], b[2])) = 1 => SlipView(payslip) = RowView(row)

\* a payslip and the payroll of a month were made for an employee with
\* attendance, a bonus and a deduction on the last day of the month and on the
\* first day of the next one
C19_Witness ==
  /\ WholeMonthSlip
  /\ LET e    == payslip.EmpID
         next == month_bounds(payroll.year, payroll.month)[2]
         on(B, day) == \E r \in DOMAIN B : r.emp_id = e /\ r.day = day
     IN  /\ on(attendance, payslip.To) /\ on(attendance, next)
         /\ on(bonuses, payslip.To) /\ on(bonuses, next)
         /\ on(deductions, payslip.To) /\ on(deductions, next)
  /\ payslip.Absent = 1
  /\ payslip.Bonuses > 0
  /\ payslip.Net = payroll.rows[payslip.EmpID].Net

\* the ledger has at most one attendance record on a day of the calendar
OneRecordPerDay ==
  /\ AtMostOnePerDay(attendance)
  /\ \A r \in DOMAIN attendance :
       DayOfMonth(r.day) \in 1..MonthLength(r.day \div 10000, (r.day \div 100) % 100)

----------------------------------------------------------------------------
(* Properties of the draft *)

\* the element after st in the order Present, Absent, Half Day, Weekly Off,
\* unset, and Present after unset
NextInOrder(st) ==
  CASE st = "Present" -> "Absent"
    [] st = "Absent" -> "Half Day"
    [] st = "Half Day" -> "Weekly Off"
    [] st = "Weekly Off" -> None
    [] st = None -> "Present"

\* C14: a click on a day takes the draft status of that day to the next one
\* in the order Present, Absent, Half Day, Weekly Off, unset, from unset back
\* to Present, and leaves every other day of the draft as it was
C14_ClickAdvancesOneDay ==
  [][ \A s \in Sessions, d \in Days :
        Click(s, d) =>
          /\ calmap'[s][d] = NextInOrder(calmap[s][d])
          /\ \A x \in Days \ {d} : calmap'[s][x] = calmap[s][x]
          /\ \A t \in Sessions \ {s} : calmap'[t] = calmap[t] ]_vars

\* an unset day was clicked and is Present, next to a day with a status
C14_Witness ==
  \E s \in Sessions :
    /\ presses[s].n = 1
    /\ presses[s].from = None
    /\ calmap[s][presses[s].day] = "Present"
    /\ \E x \in Days \ {presses[s].day} : calmap[s][x] \in STATUSES \ {"Present"}

\* C15: five clicks in a row on a day bring back the status the day had, and
\* one to four clicks never do, whatever status of the cycle the day had
C15_FiveClicksClose ==
  \A s \in Sessions :
    LET p == presses[s]
    IN  (p.n > 0 /\ p.from \in STATUSES \cup {None}) =>
          /\ p.n = 5 => calmap[s][p.day] = p.from
          /\ p.n \in 1..4 => calmap[s][p.day] # p.from

\* a day was clicked five times in a row and has the status it started from
C15_Witness ==
  \E s \in Sessions :
    /\ presses[s].n = 5
    /\ presses[s].from \in STATUSES
    /\ calmap[s][presses[s].day] = presses[s].from

\* C16: a click on a cell whose value is not in the cycle leaves the cell
\* unset
C16_NonMemberGoesToUnset ==
  \A s \in Sessions :
    LET p == presses[s]
    IN  (p.n = 1 /\ p.from \notin STATUSES \cup {None}) => calmap[s][p.day] = None

\* C16 as amended: a click on a cell whose value is not in the cycle treats
\* the cell as unset and leaves it Present
C16_NonMemberGoesToPresent ==
  \A s \in Sessions :
    LET p == presses[s]
    IN  (p.n = 1 /\ p.from \notin STATUSES \cup {None}) => calmap[s][p.day] = "Present"

\* a cell with a value outside the cycle was clicked once
C16_Witness ==
  \E s \in Sessions :
    /\ presses[s].n = 1
    /\ presses[s].from \in OtherValues
    /\ calmap[s][presses[s].day] = "Present"

\* C17: Apply Range with the bounds a and b and the status st sets every day
\* from min(a, b) to max(a, b) to st whatever it held, and leaves the other
\* days of the draft and the tables as they were
C17_RangeSetFrame ==
  [][ \A s \in Sessions, a \in Days, b \in Days, st \in STATUSES :
        ApplyRange(s, a, b, st) =>
          LET lo == IF a <= b THEN a ELSE b
              hi == IF a <= b THEN b ELSE a
          IN  /\ \A d \in Days :
                   calmap'[s][d] = IF lo <= d /\ d <= hi THEN st ELSE calmap[s][d]
              /\ \A t \in Sessions \ {s} : calmap'[t] = calmap[t]
              /\ tables' = tables
              /\ pending' = pending ]_vars

\* Apply Range has set the first day, which has a Present row in the table,
\* to Absent and left the last day unset
C17_Witness ==
  /\ edits = 1
  /\ presses["S1"] = NoPresses
  /\ calmap["S1"] # NoDraft
  /\ scope["S1"].emp_id = "E1"
  /\ calmap["S1"][1] = "Absent"
  /\ calmap["S1"][NumDays] = None
  /\ RowsOn(attendance, "E1", isoformat(2024, 12, 1)) # EmptyBag

----------------------------------------------------------------------------
(* Properties of a draft saved as it was created *)

\* the statuses the table L holds for the employee of the save e on day d
StatusesOn(L, e, d) == {r.status : r \in DOMAIN RowsOn(L, e.emp_id, EntryDay(e, d))}

\* the last save was one with Overwrite of a draft nobody edited, created
\* from the table the save started from, which had at most one row for a
\* day of the employee and month
SeededOverwrite ==
  /\ Len(log) > 0
  /\ adds = 0
  /\ edits = 0
  /\ Last.overwrite
  /\ AtMostOnePerDay(ScopeRows(Last.before, Last))

\* C21: when the table has at most one row per employee and day of a month,
\* a draft created for that employee and month and saved unmodified with
\* Overwrite leaves the same days with rows, with the same statuses
C21_SeededOverwriteKeepsStatuses ==
  SeededOverwrite =>
    /\ AtMostOnePerDay(ScopeRows(attendance, Last))
    /\ \A d \in Days : StatusesOn(attendance, Last, d) = StatusesOn(Last.before, Last, d)

\* an unedited draft was saved with Overwrite on a table with a row on one
\* day of the month and none on another, and the save rewrote the row
C21_Witness ==
  /\ SeededOverwrite
  /\ \E d \in Days : StatusesOn(Last.before, Last, d) # {}
  /\ \E d \in Days : StatusesOn(Last.before, Last, d) = {}
  /\ attendance # Last.before

====
